---- MODULE Spec2Model ----
(***************************************************************************)
(* Nanite-style LOD DAG construction (createNaniteMeshlets) and the        *)
(* per-frame cut selection and draw-list assembly that consume the DAG.    *)
(*                                                                         *)
(* Errors are non-negative integers, +Infinity is the sentinel Infinity.   *)
(* A bounding sphere is an object identity (a positive number), undefined  *)
(* is Undefined.  A MeshletWIP is a record, and a reference to a MeshletWIP*)
(* is its position in allMeshlets.                                         *)
(***************************************************************************)
EXTENDS Integers, Sequences, FiniteSets, TLC

\* ------------------------------------------------------------------ bounds
\* number of clusters the clusterer may return for the input mesh
MaxBottom == 5
\* total number of MeshletWIP a build may create
MaxNodes == 12
\* number of clusters the clusterer may return for one simplified group
MaxSplit == 3
\* largest simplifiedMesh.error the simplifier returns
MaxSimplifyError == 1
\* MAX_LODS is 20 in the source; scaled down so that the cap is reached
MAX_LODS == 2
\* instances of the object in the scene
MaxInstances == 1
\* largest pixelThreshold the configuration holds
MaxThreshold == 1
\* view-space distances from the camera to a bounding sphere: 1..MaxDistance
MaxDistance == 2
\* capacity of the drawn-meshlets list in the append runs
MaxListLen == 2
\* accepted units (producers) of one visibility pass in the append runs
MaxProducers == 3
\* view-space z of a sphere centre, in units of 0.01: -MaxViewZ..MaxViewZ
MaxViewZ == 4
\* radius of a bounding sphere, in units of 0.01: 0..MaxRadius
MaxRadius == 2
\* clusters in one clusterer answer
MaxClusters == 2
\* largest index of the original vertex buffer
MaxVertexIdx == 3
\* meshlets of the level whose adjacency is computed
MaxMeshlets == 3
\* largest vertex index an edge may name
MaxEdgeVertexIdx == 2
\* nodes of the build a progress callback may run meanwhile
MaxOtherNodes == 2
\* visibility passes recorded one after the other
MaxPasses == 3
\* parsedMesh.vertexCount of the mesh that is built: 3..MaxVertexCount
MaxVertexCount == 4
\* pixel spans are multiples of 1/PixelUnit pixel
PixelUnit == 4
\* largest pixel span of a footprint, in 1/PixelUnit pixels
MaxPixelSpan == 40
\* most mip levels a depth pyramid has
MaxLevels == 4
\* u32 arithmetic wraps at 2^32; the word is scaled down to 16 bits here, which
\* leaves every wrapped value far above any list length of the model
U32_MODULUS == 65536

\* ------------------------------------------------------- program constants
GROUP_SIZE == 4
\* SIMPLIFICATION_FACTOR_REQ = 0.97 = SimplificationFactorNum / SimplificationFactorDen
SimplificationFactorNum == 97
SimplificationFactorDen == 100
meshletMaxTriangles == 124
\* triangles of every cluster of the input mesh
LeafTriangles == 75
Infinity == 1000000
Undefined == 0
\* simplifiedMesh.errorScale values
ErrorScales == {2}
BOTTOM_LEVEL_NODE == 0
VERTS_IN_TRIANGLE == 3
BYTES_U32 == 4
\* Math.max(WEBGPU_MINIMAL_BUFFER_SIZE, 4 * BYTES_U32)
BYTES_DRAWN_MESHLETS_PARAMS == 16
BYTES_DRAWN_MESHLETS_SW_PARAMS == 16
\* CAMERA_CFG.near = 0.01, in units of 0.01
CAMERA_CFG_near == 1
\* values read from the depth pyramid, in units of 0.0001 (10000 is depth 1.0)
DepthSamples == {0, 5000, 10000}

VARIABLES
  pc,               \* position of createNaniteMeshlets
  allMeshlets,      \* MeshletWIP[] in push order
  NEXT_MESHLET_ID,  \* module-level id counter
  lodLevel,         \* closure variable read by createMeshletWip
  currentMeshlets,  \* positions of the nodes of the level being coarsened
  partitioned,      \* groups of the level, each a sequence of positions
  groupIdx,         \* index of the group the for-of loop is at
  newlyCreatedMeshlets,
  pending,          \* triangle counts of the clusters not yet turned into MeshletWIP
  pendingArgs,      \* arguments shared by the createMeshletWip calls under way
  newMeshlets,      \* positions created from the group under way
  nextBounds,       \* next fresh bounding-sphere identity
  stalledGroups,    \* history: the groups that hit `continue`, with the counts warned
  result,           \* what the caller of createNaniteMeshlets has received
  instanceCount,    \* instances the drawn-meshlets buffer was created for
  drawnMeshletsListLen, \* arrayLength(&_drawnMeshletsList)
  pixelThreshold,   \* CONFIG.nanite.render.pixelThreshold of the frame
  cameraDistance,   \* per instance and bounding sphere: its view-space distance
  drawn,            \* the (transform, node) units the frame accepted
  producers,        \* shader invocations that accepted their unit: kind, position, slot
  drawnMeshletsParams,   \* DrawIndirect: the atomic instanceCount
  drawnMeshletsSwParams, \* DrawnMeshletsSw: the atomic actuallyDrawnMeshlets
  drawnMeshletsList,     \* array<vec2<u32>>, index 0..len-1
  occlusion,             \* one isPassingOcclusionCulling call: inputs, position, outcome
  parsed,                \* what parseDrawnMeshletsBuffer returned for the downloaded buffer
  clustering,            \* one clusterer answer and what createMeshlets and its readers made of it
  adjacent,              \* boundary-edge sets of a level and the adjacency found for them
  otherBuild,            \* a second createNaniteMeshlets call of the same module: its position
  metisFreeAllocationsCalls, \* how often metisFreeAllocations() was called
  awaiting,              \* nodes whose createMeshletWip call awaits the progress callback
  earlierPasses,         \* hardware units accepted in each finished pass before the running one
  thrown                 \* the error createNaniteMeshlets threw

buildVars == <<pc, allMeshlets, NEXT_MESHLET_ID, lodLevel, currentMeshlets, partitioned,
               groupIdx, newlyCreatedMeshlets, pending, pendingArgs, newMeshlets,
               nextBounds, stalledGroups, result>>
frameVars == <<instanceCount, drawnMeshletsListLen, pixelThreshold, cameraDistance, drawn>>
appendVars == <<producers, drawnMeshletsParams, drawnMeshletsSwParams, drawnMeshletsList>>
callVars == <<occlusion, parsed, clustering, adjacent, otherBuild, metisFreeAllocationsCalls,
              awaiting, earlierPasses, thrown>>
vars == <<buildVars, frameVars, appendVars, callVars>>

NoCall == [at |-> "none"]
NoResult == <<"none">>
NoArgs == [simplificationError |-> 0, createdFrom |-> {}, sharedSiblingsBounds |-> Undefined]

\* ------------------------------------------------------------------ helpers
Range(s) == {s[i] : i \in DOMAIN s}

Max(S) == CHOOSE x \in S : \A y \in S : y <= x

RECURSIVE SumTriangles(_, _)
SumTriangles(ms, group) ==
  IF group = <<>> THEN 0
  ELSE ms[Head(group)].triangles + SumTriangles(ms, Tail(group))

\* getTriangleCount(mergeMeshlets(...group))
trianglesBeforeOf(ms, group) == SumTriangles(ms, group)

isWIP_Root(m) == m.parentBounds = Undefined

isStalled_atCeiling(trianglesAfter, trianglesBefore) ==
  trianglesAfter * SimplificationFactorDen >= SimplificationFactorNum * trianglesBefore

\* simplificationFactor > SIMPLIFICATION_FACTOR_REQ, with
\* simplificationFactor = trianglesAfter / trianglesBefore
isStalled(trianglesAfter, trianglesBefore) ==
  trianglesAfter * SimplificationFactorDen > SimplificationFactorNum * trianglesBefore

totalErrorOf_errorNowOnly(ms, group, error, errorScale) == error * errorScale

\* errorNow + childrenError
totalErrorOf(ms, group, error, errorScale) ==
  error * errorScale + Max({ms[p].maxSiblingsError : p \in Range(group)})

\* triangle counts the simplifier may leave from trianglesBefore:
\* the target (half), the last count that is not a stall, the first that is
SimplifyOutcomes(trianglesBefore) ==
  { trianglesBefore \div 2,
    (SimplificationFactorNum * trianglesBefore) \div SimplificationFactorDen,
    (SimplificationFactorNum * trianglesBefore) \div SimplificationFactorDen + 1 }
  \cap 1..trianglesBefore

\* cluster sizes the clusterer returns for `triangles` triangles cut in k clusters
SplitSizes(triangles, k) ==
  [i \in 1..k |-> triangles \div k + (IF i <= triangles % k THEN 1 ELSE 0)]

SplitCounts_anyCount(triangles) == {k \in 1..MaxSplit : k <= triangles}

\* cluster counts the clusterer may return: enough clusters of <= maxTriangles
SplitCounts(triangles) ==
  {k \in 1..MaxSplit : k <= triangles /\ k * meshletMaxTriangles >= triangles}

\* partitionGraph's answer for n nodes and the sizes of its parts: part g holds the
\* next sizes[g] nodes of the level
RECURSIVE GroupsOf(_, _)
GroupsOf(current, sizes) ==
  IF sizes = <<>> THEN <<>>
  ELSE <<SubSeq(current, 1, Head(sizes))>>
         \o GroupsOf(SubSeq(current, Head(sizes) + 1, Len(current)), Tail(sizes))

RECURSIVE Sum(_)
Sum(s) == IF s = <<>> THEN 0 ELSE Head(s) + Sum(Tail(s))

\* the partitioner answers with nparts non-empty parts that cover the level
Partitions(current, nparts) ==
  { GroupsOf(current, sizes) :
      sizes \in { z \in [1..nparts -> 1..Len(current)] : Sum(z) = Len(current) } }

CeilDiv(a, b) == (a + b - 1) \div b

\* ------------------------------------------------------------------ actions
\* before createNaniteMeshlets is called: no scene, no frame, no pass
BuildIdle ==
  /\ pc = "start"
  /\ allMeshlets = <<>>
  /\ NEXT_MESHLET_ID = 0
  /\ lodLevel = 0
  /\ currentMeshlets = <<>>
  /\ partitioned = <<>>
  /\ groupIdx = 0
  /\ newlyCreatedMeshlets = <<>>
  /\ pending = <<>>
  /\ pendingArgs = NoArgs
  /\ newMeshlets = <<>>
  /\ nextBounds = 1
  /\ stalledGroups = {}
  /\ result = NoResult
  /\ instanceCount = 0
  /\ drawnMeshletsListLen = 0
  /\ pixelThreshold = 0
  /\ cameraDistance = <<>>
  /\ drawn = {}
  /\ producers = <<>>
  /\ drawnMeshletsParams = [instanceCount |-> 0]
  /\ drawnMeshletsSwParams = [actuallyDrawnMeshlets |-> 0]
  /\ drawnMeshletsList = <<>>

\* no shader or helper call under way
CallsIdle ==
  /\ occlusion = NoCall
  /\ parsed = NoCall
  /\ clustering = NoCall
  /\ adjacent = NoCall
  /\ otherBuild = NoCall
  /\ metisFreeAllocationsCalls = 0
  /\ awaiting = {}
  /\ earlierPasses = <<>>
  /\ thrown = NoCall

Init == BuildIdle /\ CallsIdle

BottomArgs_errorOne(mockBounds) ==
  [simplificationError |-> 1, createdFrom |-> {}, sharedSiblingsBounds |-> mockBounds]

\* splitIntoMeshlets(indices, 0.0, [], mockBounds): what every bottom meshlet gets
BottomArgs(mockBounds) ==
  [simplificationError |-> 0, createdFrom |-> {}, sharedSiblingsBounds |-> mockBounds]

\* createNaniteMeshlets up to the createMeshlets call of the bottom level
Start ==
  /\ pc = "start"
  /\ \E n \in 1..MaxBottom :
       pending' = [i \in 1..n |-> LeafTriangles]
  /\ NEXT_MESHLET_ID' = 0
  /\ lodLevel' = 0
  /\ pendingArgs' = BottomArgs(nextBounds)
  /\ nextBounds' = nextBounds + 1
  /\ newMeshlets' = <<>>
  /\ pc' = "bottom"
  /\ UNCHANGED <<allMeshlets, currentMeshlets, partitioned, groupIdx,
                 newlyCreatedMeshlets, stalledGroups, result, frameVars, appendVars, callVars>>

MeshletWipOf_idZero(id, triangles, args, level) ==
  [ id |-> 0,
    triangles |-> triangles,
    maxSiblingsError |-> args.simplificationError,
    parentError |-> Infinity,
    sharedSiblingsBounds |-> args.sharedSiblingsBounds,
    parentBounds |-> Undefined,
    lodLevel |-> level,
    createdFrom |-> args.createdFrom ]

MeshletWipOf_levelZero(id, triangles, args, level) ==
  [ id |-> id,
    triangles |-> triangles,
    maxSiblingsError |-> args.simplificationError,
    parentError |-> Infinity,
    sharedSiblingsBounds |-> args.sharedSiblingsBounds,
    parentBounds |-> Undefined,
    lodLevel |-> 0,
    createdFrom |-> args.createdFrom ]

MeshletWipOf_zeroError(id, triangles, args, level) ==
  [ id |-> id,
    triangles |-> triangles,
    maxSiblingsError |-> 0,
    parentError |-> Infinity,
    sharedSiblingsBounds |-> args.sharedSiblingsBounds,
    parentBounds |-> Undefined,
    lodLevel |-> level,
    createdFrom |-> args.createdFrom ]

\* the MeshletWIP createMeshletWip builds
MeshletWipOf(id, triangles, args, level) ==
  [ id |-> id,
    triangles |-> triangles,
    maxSiblingsError |-> args.simplificationError,
    parentError |-> Infinity,
    sharedSiblingsBounds |-> args.sharedSiblingsBounds,
    parentBounds |-> Undefined,
    lodLevel |-> level,
    createdFrom |-> args.createdFrom ]

\* one createMeshletWip call, up to its await of the progress callback
createMeshletWip ==
  /\ pc \in {"bottom", "split"}
  /\ pending # <<>>
  /\ Len(allMeshlets) < MaxNodes
  /\ allMeshlets' = Append(allMeshlets,
                      MeshletWipOf(NEXT_MESHLET_ID, Head(pending), pendingArgs, lodLevel))
  /\ NEXT_MESHLET_ID' = NEXT_MESHLET_ID + 1
  /\ newMeshlets' = Append(newMeshlets, Len(allMeshlets) + 1)
  /\ pending' = Tail(pending)
  /\ awaiting' = awaiting \cup {Len(allMeshlets) + 1}
  /\ UNCHANGED <<pc, lodLevel, currentMeshlets, partitioned, groupIdx,
                 newlyCreatedMeshlets, pendingArgs, nextBounds, stalledGroups, result,
                 frameVars, appendVars, occlusion, parsed, clustering, adjacent,
                 otherBuild, metisFreeAllocationsCalls, earlierPasses, thrown>>

\* the progress callback of one createMeshletWip call resolves: return m. The calls
\* that splitIntoMeshlets started together resume in any order, after the last of
\* them has been started.
resumeCreateMeshletWip ==
  /\ pc \in {"bottom", "split"}
  /\ pending = <<>>
  /\ \E p \in awaiting : awaiting' = awaiting \ {p}
  /\ UNCHANGED <<buildVars, frameVars, appendVars, occlusion, parsed, clustering, adjacent,
                 otherBuild, metisFreeAllocationsCalls, earlierPasses, thrown>>

\* Promise.all of the bottom splitIntoMeshlets resolves: currentMeshlets = bottomMeshlets; lodLevel += 1
BottomDone ==
  /\ pc = "bottom"
  /\ pending = <<>>
  /\ awaiting = {}
  /\ currentMeshlets' = newMeshlets
  /\ lodLevel' = lodLevel + 1
  /\ newMeshlets' = <<>>
  /\ pc' = "loop"
  /\ UNCHANGED <<allMeshlets, NEXT_MESHLET_ID, partitioned, groupIdx,
                 newlyCreatedMeshlets, pending, pendingArgs, nextBounds,
                 stalledGroups, result, frameVars, appendVars, callVars>>

loopContinues_noCap(level, current) == Len(current) >= 2

\* for (; lodLevel < MAX_LODS + 1; ...) { if (currentMeshlets.length < 2) break; ...
loopContinues(level, current) == level < MAX_LODS + 1 /\ Len(current) >= 2

\* loop head: the level cap is hit or fewer than 2 nodes are left
LoopExit ==
  /\ pc = "loop"
  /\ ~loopContinues(lodLevel, currentMeshlets)
  /\ pc' = "finish"
  /\ UNCHANGED <<allMeshlets, NEXT_MESHLET_ID, lodLevel, currentMeshlets, partitioned,
                 groupIdx, newlyCreatedMeshlets, pending, pendingArgs, newMeshlets,
                 nextBounds, stalledGroups, result, frameVars, appendVars, callVars>>

\* 1. group meshlets into groups of 4
Partition ==
  /\ pc = "loop"
  /\ loopContinues(lodLevel, currentMeshlets)
  /\ IF Len(currentMeshlets) > GROUP_SIZE
       THEN partitioned' \in Partitions(currentMeshlets,
                                        CeilDiv(Len(currentMeshlets), GROUP_SIZE))
       ELSE partitioned' = <<currentMeshlets>>
  /\ groupIdx' = 1
  /\ newlyCreatedMeshlets' = <<>>
  /\ pc' = "group"
  /\ UNCHANGED <<allMeshlets, NEXT_MESHLET_ID, lodLevel, currentMeshlets, pending,
                 pendingArgs, newMeshlets, nextBounds, stalledGroups, result, frameVars, appendVars, callVars>>

\* 2.1, 2.2 with a simplifier result over the ceiling: warn and continue
StallGroup ==
  /\ pc = "group"
  /\ groupIdx <= Len(partitioned)
  /\ LET group == partitioned[groupIdx]
         trianglesBefore == trianglesBeforeOf(allMeshlets, group)
     IN \E trianglesAfter \in SimplifyOutcomes(trianglesBefore) :
          /\ isStalled(trianglesAfter, trianglesBefore)
          /\ stalledGroups' = stalledGroups \cup
                 {[ members |-> Range(group), lodLevel |-> lodLevel,
                    trianglesBefore |-> trianglesBefore,
                    trianglesAfter |-> trianglesAfter ]}
  /\ groupIdx' = groupIdx + 1
  /\ UNCHANGED <<pc, allMeshlets, NEXT_MESHLET_ID, lodLevel, currentMeshlets,
                 partitioned, newlyCreatedMeshlets, pending, pendingArgs, newMeshlets,
                 nextBounds, result, frameVars, appendVars, callVars>>

isSingleGroup_never(groups) == FALSE

\* partitioned.length === 1: the new node is made by createMeshletWip directly
isSingleGroup(groups) == Len(groups) = 1

\* 2.1, 2.2 with an accepted simplifier result, then 2.3 up to the clusterer's answer
SimplifyGroup ==
  /\ pc = "group"
  /\ groupIdx <= Len(partitioned)
  /\ LET group == partitioned[groupIdx]
         trianglesBefore == trianglesBeforeOf(allMeshlets, group)
     IN \E trianglesAfter \in SimplifyOutcomes(trianglesBefore),
           error \in 0..MaxSimplifyError, errorScale \in ErrorScales :
          /\ ~isStalled(trianglesAfter, trianglesBefore)
          /\ pendingArgs' = [simplificationError |->
                               totalErrorOf(allMeshlets, group, error, errorScale),
                             createdFrom |-> Range(group),
                             sharedSiblingsBounds |-> nextBounds]
          /\ IF isSingleGroup(partitioned)
               THEN pending' = <<trianglesAfter>>
               ELSE \E k \in SplitCounts(trianglesAfter) :
                      pending' = SplitSizes(trianglesAfter, k)
  /\ nextBounds' = nextBounds + 1
  /\ newMeshlets' = <<>>
  /\ pc' = "split"
  /\ UNCHANGED <<allMeshlets, NEXT_MESHLET_ID, lodLevel, currentMeshlets, partitioned,
                 groupIdx, newlyCreatedMeshlets, stalledGroups, result, frameVars, appendVars, callVars>>

WithParent_ownErrorToo(m, totalError, bounds) ==
  [m EXCEPT !.parentError = totalError, !.parentBounds = bounds,
            !.maxSiblingsError = totalError]

WithParent_errorOnly(m, totalError, bounds) ==
  [m EXCEPT !.parentError = totalError]

WithParent_boundsOnly(m, totalError, bounds) ==
  [m EXCEPT !.parentBounds = bounds]

\* childMeshletGroup.forEach(...): the node with its parent data set
WithParent(m, totalError, bounds) ==
  [m EXCEPT !.parentError = totalError, !.parentBounds = bounds]

\* the new nodes are there: update the group with parent data, push the new nodes
AssignParents ==
  /\ pc = "split"
  /\ pending = <<>>
  /\ awaiting = {}
  /\ allMeshlets' = [p \in DOMAIN allMeshlets |->
                       IF p \in pendingArgs.createdFrom
                         THEN WithParent(allMeshlets[p], pendingArgs.simplificationError,
                                         pendingArgs.sharedSiblingsBounds)
                         ELSE allMeshlets[p]]
  /\ newlyCreatedMeshlets' = newlyCreatedMeshlets \o newMeshlets
  /\ newMeshlets' = <<>>
  /\ groupIdx' = groupIdx + 1
  /\ pc' = "group"
  /\ UNCHANGED <<NEXT_MESHLET_ID, lodLevel, currentMeshlets, partitioned, pending,
                 pendingArgs, nextBounds, stalledGroups, result, frameVars, appendVars, callVars>>

isSimplificationError_anyLevel(level, created) == created = <<>>

\* lodLevel == 1 && newlyCreatedMeshlets.length == 0
isSimplificationError(level, created) == level = 1 /\ created = <<>>

\* new SimplificationError(lodLevel, vertexCount): what its message reports
SimplificationError(level, vertexCount) ==
  [ at |-> "thrown",
    name |-> "SimplificationError",
    lodLevel |-> level,
    vertexCount |-> vertexCount ]

\* end of the level: throw new SimplificationError(lodLevel - 1, parsedMesh.vertexCount)
Throw ==
  /\ pc = "group"
  /\ groupIdx > Len(partitioned)
  /\ isSimplificationError(lodLevel, newlyCreatedMeshlets)
  /\ \E vertexCount \in 3..MaxVertexCount :
       thrown' = SimplificationError(lodLevel - 1, vertexCount)
  /\ pc' = "threw"
  /\ UNCHANGED <<allMeshlets, NEXT_MESHLET_ID, lodLevel, currentMeshlets, partitioned,
                 groupIdx, newlyCreatedMeshlets, pending, pendingArgs, newMeshlets,
                 nextBounds, stalledGroups, result, frameVars, appendVars, occlusion,
                 parsed, clustering, adjacent, otherBuild, metisFreeAllocationsCalls,
                 awaiting, earlierPasses>>

\* end of the level: currentMeshlets = newlyCreatedMeshlets; lodLevel++
NextLevel ==
  /\ pc = "group"
  /\ groupIdx > Len(partitioned)
  /\ ~isSimplificationError(lodLevel, newlyCreatedMeshlets)
  /\ currentMeshlets' = newlyCreatedMeshlets
  /\ lodLevel' = lodLevel + 1
  /\ pc' = "loop"
  /\ UNCHANGED <<allMeshlets, NEXT_MESHLET_ID, partitioned, groupIdx,
                 newlyCreatedMeshlets, pending, pendingArgs, newMeshlets, nextBounds,
                 stalledGroups, result, frameVars, appendVars, callVars>>

\* after the loop: metisFreeAllocations(); return allMeshlets
Return ==
  /\ pc = "finish"
  /\ metisFreeAllocationsCalls' = metisFreeAllocationsCalls + 1
  /\ result' = allMeshlets
  /\ pc' = "returned"
  /\ UNCHANGED <<allMeshlets, NEXT_MESHLET_ID, lodLevel, currentMeshlets, partitioned,
                 groupIdx, newlyCreatedMeshlets, pending, pendingArgs, newMeshlets,
                 nextBounds, stalledGroups, frameVars, appendVars, occlusion, parsed,
                 clustering, adjacent, otherBuild, awaiting,
                 earlierPasses, thrown>>


\* ------------------------------------------------------- the frame (runtime)
Positions(ms) == DOMAIN ms

\* createDrawnMeshletsBuffer: listSize / BYTES_UVEC2
drawnMeshletsListLenOf(allWIPMeshlets, instances) ==
  Cardinality({p \in Positions(allWIPMeshlets) :
                 allWIPMeshlets[p].lodLevel = BOTTOM_LEVEL_NODE}) * instances

\* the scene is set up from the returned DAG
createDrawnMeshletsBuffer ==
  /\ pc = "returned"
  /\ \E n \in 1..MaxInstances :
       /\ instanceCount' = n
       /\ drawnMeshletsListLen' = drawnMeshletsListLenOf(result, n)
  /\ pc' = "scene"
  /\ UNCHANGED <<allMeshlets, NEXT_MESHLET_ID, lodLevel, currentMeshlets, partitioned,
                 groupIdx, newlyCreatedMeshlets, pending, pendingArgs, newMeshlets,
                 nextBounds, stalledGroups, result, pixelThreshold, cameraDistance, drawn,
                 appendVars, callVars>>

\* world-space error seen from view-space distance d, in pixels (the factor
\* viewport height / tan(fov/2) is 1); +Infinity stays +Infinity
projectedError(error, d) ==
  IF error = Infinity THEN Infinity ELSE error \div d

\* the cut rule for node m of an instance whose spheres stand at distances dist
isDrawn(m, dist, threshold) ==
  LET projectedParentError ==
        IF m.parentBounds = Undefined THEN Infinity
        ELSE projectedError(m.parentError, dist[m.parentBounds])
      projectedOwnError ==
        projectedError(m.maxSiblingsError, dist[m.sharedSiblingsBounds])
  IN projectedParentError > threshold /\ projectedOwnError <= threshold

\* one visibility pass: every (transform, node) unit is evaluated
cmdCalculateVisibility ==
  /\ pc = "scene"
  /\ \E threshold \in 0..MaxThreshold,
        dist \in [1..instanceCount -> [1..(nextBounds - 1) -> 1..MaxDistance]] :
       /\ pixelThreshold' = threshold
       /\ cameraDistance' = dist
       /\ drawn' = {u \in (1..instanceCount) \X Positions(result) :
                      isDrawn(result[u[2]], dist[u[1]], threshold)}
  /\ pc' = "frame"
  /\ UNCHANGED <<allMeshlets, NEXT_MESHLET_ID, lodLevel, currentMeshlets, partitioned,
                 groupIdx, newlyCreatedMeshlets, pending, pendingArgs, newMeshlets,
                 nextBounds, stalledGroups, result, instanceCount, drawnMeshletsListLen,
                 appendVars, callVars>>

\* --------------------------------------------- draw-list assembly (one pass)
NoEntry == <<0, 0>>
\* the unit producer p accepted: vec2u(tfxIdx, meshletIdx)
UnitOf(p) == <<1, p>>

\* a store to array[idx] of a runtime-sized storage array of len elements: in bounds
\* it lands at idx; out of bounds it is dropped or lands on some element of the array
ArrayStore(list, len, idx, value) ==
  IF idx < len
    THEN {[list EXCEPT ![idx] = value]}
    ELSE {list} \cup {[list EXCEPT ![j] = value] : j \in 0..(len - 1)}

\* _storeMeshletHardwareDraw: the index written
hardwareIndex(len, idx) == idx

softwareIndex_noMinusOne(len, idx) == (len - idx) % U32_MODULUS

\* _storeMeshletSoftwareDraw: idx2 = len - 1u - idx
softwareIndex(len, idx) == (len - 1 - idx) % U32_MODULUS

\* a visibility pass over a cleared buffer: n units were accepted, each for one list
InitAppend ==
  /\ pc = "pass"
  /\ allMeshlets = <<>>
  /\ NEXT_MESHLET_ID = 0
  /\ lodLevel = 0
  /\ currentMeshlets = <<>>
  /\ partitioned = <<>>
  /\ groupIdx = 0
  /\ newlyCreatedMeshlets = <<>>
  /\ pending = <<>>
  /\ pendingArgs = NoArgs
  /\ newMeshlets = <<>>
  /\ nextBounds = 1
  /\ stalledGroups = {}
  /\ result = NoResult
  /\ instanceCount = 1
  /\ pixelThreshold = 0
  /\ cameraDistance = <<>>
  /\ drawn = {}
  /\ drawnMeshletsListLen \in 1..MaxListLen
  /\ \E n \in 0..MaxProducers :
       producers \in [1..n -> [kind : {"hardware", "software"}, at : {"accepted"}, slot : {0}]]
  /\ drawnMeshletsParams = [instanceCount |-> 0]
  /\ drawnMeshletsSwParams = [actuallyDrawnMeshlets |-> 0]
  /\ drawnMeshletsList = [i \in 0..(drawnMeshletsListLen - 1) |-> NoEntry]
  /\ CallsIdle

\* atomicAdd(&_drawnMeshletsParams.instanceCount, 1u)
atomicAddHardware(p) ==
  /\ producers[p].kind = "hardware"
  /\ producers[p].at = "accepted"
  /\ producers' = [producers EXCEPT ![p].slot = drawnMeshletsParams.instanceCount,
                                    ![p].at = "store"]
  /\ drawnMeshletsParams' =
       [instanceCount |-> (drawnMeshletsParams.instanceCount + 1) % U32_MODULUS]
  /\ UNCHANGED <<buildVars, frameVars, drawnMeshletsSwParams, drawnMeshletsList, callVars>>

\* atomicAdd(&_drawnMeshletsSwParams.actuallyDrawnMeshlets, 1u)
atomicAddSoftware(p) ==
  /\ producers[p].kind = "software"
  /\ producers[p].at = "accepted"
  /\ producers' = [producers EXCEPT ![p].slot = drawnMeshletsSwParams.actuallyDrawnMeshlets,
                                    ![p].at = "store"]
  /\ drawnMeshletsSwParams' =
       [actuallyDrawnMeshlets |->
          (drawnMeshletsSwParams.actuallyDrawnMeshlets + 1) % U32_MODULUS]
  /\ UNCHANGED <<buildVars, frameVars, drawnMeshletsParams, drawnMeshletsList, callVars>>

\* _storeMeshletHardwareDraw(idx, tfxIdx, meshletIdx)
storeMeshletHardwareDraw(p) ==
  /\ producers[p].kind = "hardware"
  /\ producers[p].at = "store"
  /\ drawnMeshletsList' \in
       ArrayStore(drawnMeshletsList, drawnMeshletsListLen,
                  hardwareIndex(drawnMeshletsListLen, producers[p].slot), UnitOf(p))
  /\ producers' = [producers EXCEPT ![p].at = "done"]
  /\ UNCHANGED <<buildVars, frameVars, drawnMeshletsParams, drawnMeshletsSwParams, callVars>>

\* _storeMeshletSoftwareDraw(idx, tfxIdx, meshletIdx)
storeMeshletSoftwareDraw(p) ==
  /\ producers[p].kind = "software"
  /\ producers[p].at = "store"
  /\ drawnMeshletsList' \in
       ArrayStore(drawnMeshletsList, drawnMeshletsListLen,
                  softwareIndex(drawnMeshletsListLen, producers[p].slot), UnitOf(p))
  /\ producers' = [producers EXCEPT ![p].at = "done"]
  /\ UNCHANGED <<buildVars, frameVars, drawnMeshletsParams, drawnMeshletsSwParams, callVars>>

NextAppend ==
  \/ \E p \in DOMAIN producers : atomicAddHardware(p)
  \/ \E p \in DOMAIN producers : atomicAddSoftware(p)
  \/ \E p \in DOMAIN producers : storeMeshletHardwareDraw(p)
  \/ \E p \in DOMAIN producers : storeMeshletSoftwareDraw(p)

SpecAppend == InitAppend /\ [][NextAppend]_vars

\* ----------------------------------------- a second build, started meanwhile
\* some createMeshletWip call awaits progressCb: its callback has not resolved yet
inProgressCallback == pc \in {"bottom", "split"} /\ awaiting # {}

RECURSIVE IdsFrom(_, _)
\* the ids n createMeshletWip calls in a row hand out when the counter stands at next
IdsFrom(next, n) == IF n = 0 THEN <<>> ELSE <<next>> \o IdsFrom(next + 1, n - 1)

\* a progress callback that runs another createNaniteMeshlets to its end before it
\* resolves: NEXT_MESHLET_ID = 0, then one NEXT_MESHLET_ID += 1 for each of its nodes
progressCb_createNaniteMeshlets ==
  /\ inProgressCallback
  /\ otherBuild = NoCall
  /\ \E nodes \in 1..MaxOtherNodes :
       /\ NEXT_MESHLET_ID' = nodes
       /\ otherBuild' = [at |-> "returned", nodes |-> nodes, ids |-> IdsFrom(0, nodes)]
  /\ metisFreeAllocationsCalls' = metisFreeAllocationsCalls + 1
  /\ UNCHANGED <<pc, allMeshlets, lodLevel, currentMeshlets, partitioned, groupIdx,
                 newlyCreatedMeshlets, pending, pendingArgs, newMeshlets, nextBounds,
                 stalledGroups, result, frameVars, appendVars, occlusion, parsed,
                 clustering, adjacent, awaiting,
                 earlierPasses, thrown>>

NextOverlap ==
  \/ Start
  \/ createMeshletWip
  \/ resumeCreateMeshletWip
  \/ BottomDone
  \/ LoopExit
  \/ Partition
  \/ StallGroup
  \/ SimplifyGroup
  \/ AssignParents
  \/ Throw
  \/ NextLevel
  \/ Return
  \/ progressCb_createNaniteMeshlets

SpecOverlap == Init /\ [][NextOverlap]_vars

\* ------------------------------------ the pass and the reader of its buffer
passComplete_always == TRUE

\* computePass.end(): the commands recorded after the pass run when every invocation
\* of the dispatch has finished
passComplete == \A p \in DOMAIN producers : producers[p].at = "done"

\* arrays are sequences; element o of an array is At(arr, o), a read past the end
\* gives no number
NaN == 0 - 1
At(arr, o) == IF o + 1 \in DOMAIN arr THEN arr[o + 1] ELSE NaN

\* TypedArray.slice(begin, end)
Slice(arr, begin, end) ==
  LET last == IF end < Len(arr) THEN end ELSE Len(arr)
  IN IF begin >= last THEN <<>> ELSE SubSeq(arr, begin + 1, last)

\* n words of value 0
Zeros(n) == [i \in 1..n |-> 0]

RECURSIVE ListWords(_, _)
\* the words of list entries from index i on: each vec2<u32> is two words
ListWords(list, i) ==
  IF i \notin DOMAIN list THEN <<>>
  ELSE <<list[i][1], list[i][2]>> \o ListWords(list, i + 1)

\* the downloaded buffer: DrawIndirect, DrawnMeshletsSw, then the list
downloadBuffer ==
  <<0, drawnMeshletsParams.instanceCount, 0, 0>>
    \o Zeros(BYTES_DRAWN_MESHLETS_PARAMS \div BYTES_U32 - 4)
    \o <<0, 0, 0, drawnMeshletsSwParams.actuallyDrawnMeshlets>>
    \o Zeros(BYTES_DRAWN_MESHLETS_SW_PARAMS \div BYTES_U32 - 4)
    \o ListWords(drawnMeshletsList, 0)

listOffset_noSwHeader == BYTES_DRAWN_MESHLETS_PARAMS \div BYTES_U32

\* offset, in words, of the list in the buffer
listOffset == (BYTES_DRAWN_MESHLETS_PARAMS + BYTES_DRAWN_MESHLETS_SW_PARAMS) \div BYTES_U32

\* what parseDrawnMeshletsBuffer returns for data
parseOf(data) ==
  LET indirectDraw == Slice(data, 0, 4)
      meshletCount == At(indirectDraw, 1)
      lastWrittenIdx == 2 * meshletCount
      visibilityResultArr == Slice(data, listOffset, listOffset + lastWrittenIdx)
  IN [ at |-> "done",
       meshletCount |-> meshletCount,
       meshletIds |-> [i \in 0..(meshletCount - 1) |->
                         <<At(visibilityResultArr, 2 * i),
                           At(visibilityResultArr, 2 * i + 1)>>] ]

\* parseDrawnMeshletsBuffer(naniteObject, data) on the buffer as it is downloaded
parseDrawnMeshletsBuffer ==
  /\ pc = "pass"
  /\ parsed = NoCall
  /\ passComplete
  /\ parsed' = parseOf(downloadBuffer)
  /\ UNCHANGED <<buildVars, frameVars, appendVars, occlusion, clustering, adjacent, otherBuild,
                 metisFreeAllocationsCalls, awaiting, earlierPasses, thrown>>

NextFrame ==
  \/ \E p \in DOMAIN producers : atomicAddHardware(p)
  \/ \E p \in DOMAIN producers : atomicAddSoftware(p)
  \/ \E p \in DOMAIN producers : storeMeshletHardwareDraw(p)
  \/ \E p \in DOMAIN producers : storeMeshletSoftwareDraw(p)
  \/ parseDrawnMeshletsBuffer

SpecFrame == InitAppend /\ [][NextFrame]_vars

\* ------------------------------------------------- one pass after the other
clearBuffer_notAtAll(params) == params

\* cmdBuf.clearBuffer(drawIndirectParamsBuffer, 0, size): every word of it is 0
clearBuffer(params) == [instanceCount |-> 0]

HardwareProducers == {p \in DOMAIN producers : producers[p].kind = "hardware"}

\* cmdCalculateVisibility of the next frame, run when the pass before it has ended:
\* the params buffer is cleared, then the dispatch accepts this frame's units
cmdCalculateVisibility_nextFrame ==
  /\ pc = "pass"
  /\ passComplete
  /\ Len(earlierPasses) < MaxPasses - 1
  /\ earlierPasses' = Append(earlierPasses, Cardinality(HardwareProducers))
  /\ drawnMeshletsParams' = clearBuffer(drawnMeshletsParams)
  /\ \E n \in 0..MaxProducers :
       producers' \in [1..n -> [kind : {"hardware", "software"}, at : {"accepted"}, slot : {0}]]
  /\ UNCHANGED <<buildVars, frameVars, drawnMeshletsSwParams, drawnMeshletsList, occlusion,
                 parsed, clustering, adjacent, otherBuild, metisFreeAllocationsCalls,
                 awaiting, thrown>>

NextPasses ==
  \/ \E p \in DOMAIN producers : atomicAddHardware(p)
  \/ \E p \in DOMAIN producers : atomicAddSoftware(p)
  \/ \E p \in DOMAIN producers : storeMeshletHardwareDraw(p)
  \/ \E p \in DOMAIN producers : storeMeshletSoftwareDraw(p)
  \/ cmdCalculateVisibility_nextFrame

SpecPasses == InitAppend /\ [][NextPasses]_vars

\* ------------------------------------------- createMeshlets and its readers

\* sequences of n distinct indices into the original vertex buffer
DistinctVertices(n) ==
  {v \in [1..n -> 0..MaxVertexIdx] : \A i, j \in 1..n : i # j => v[i] # v[j]}

\* clusters meshopt_buildMeshlets may emit: one triangle on 3 vertices or two
\* triangles on 4, with cluster-local indices
ClusterChoices ==
  [vertices : DistinctVertices(3), local : {<<0, 1, 2>>}]
    \cup [vertices : DistinctVertices(4), local : {<<0, 1, 2, 2, 1, 3>>}]

\* meshlet_triangles of a cluster, padded to a multiple of 4 as meshopt lays it out
Padded(local) ==
  local \o [i \in 1..((((Len(local) + 3) \div 4) * 4) - Len(local)) |-> 0]

\* the arrays meshopt_buildMeshlets fills for the clusters cs
RECURSIVE RawMeshlets(_, _, _)
RawMeshlets(cs, vertexOffset, triangleOffset) ==
  IF cs = <<>> THEN [meshlets |-> <<>>, meshletVertices |-> <<>>, meshletTriangles |-> <<>>]
  ELSE LET c == Head(cs)
           rest == RawMeshlets(Tail(cs), vertexOffset + Len(c.vertices),
                               triangleOffset + Len(Padded(c.local)))
       IN [ meshlets |-> <<[ vertexOffset |-> vertexOffset,
                             triangleOffset |-> triangleOffset,
                             vertexCount |-> Len(c.vertices),
                             triangleCount |-> Len(c.local) \div VERTS_IN_TRIANGLE ]>>
                           \o rest.meshlets,
            meshletVertices |-> c.vertices \o rest.meshletVertices,
            meshletTriangles |-> Padded(c.local) \o rest.meshletTriangles ]

\* meshletIndicesWithOriginalVertexBuffer: the inner loop for one meshlet
OriginalIndicesOf(meshlet, meshletVertices, meshletTriangles) ==
  [j \in 1..(meshlet.triangleCount * VERTS_IN_TRIANGLE) |->
     At(meshletVertices,
        meshlet.vertexOffset + At(meshletTriangles, meshlet.triangleOffset + (j - 1)))]

RECURSIVE meshletIndicesWithOriginalVertexBuffer(_, _, _)
meshletIndicesWithOriginalVertexBuffer(meshlets, meshletVertices, meshletTriangles) ==
  IF meshlets = <<>> THEN <<>>
  ELSE OriginalIndicesOf(Head(meshlets), meshletVertices, meshletTriangles)
         \o meshletIndicesWithOriginalVertexBuffer(Tail(meshlets), meshletVertices,
                                                   meshletTriangles)

\* createMeshlets from the clusterer's arrays on, with the option as given
createMeshlets(raw, rewriteIndicesToReferenceOriginalVertexBuffer) ==
  LET lastMeshlet == raw.meshlets[Len(raw.meshlets)]
      lastVertexIdx == lastMeshlet.vertexOffset + lastMeshlet.vertexCount
      lastTriangleIdx == lastMeshlet.triangleOffset
                           + ((lastMeshlet.triangleCount * 3 + 3) \div 4) * 4
      meshletTrianglesU32 == SubSeq(raw.meshletTriangles, 1, lastTriangleIdx)
  IN [ meshlets |-> raw.meshlets,
       meshletVertices |-> SubSeq(raw.meshletVertices, 1, lastVertexIdx),
       meshletTriangles |->
         IF rewriteIndicesToReferenceOriginalVertexBuffer
           THEN meshletIndicesWithOriginalVertexBuffer(raw.meshlets, raw.meshletVertices,
                                                       meshletTrianglesU32)
           ELSE meshletTrianglesU32 ]

\* splitIndicesPerMeshlets: the slices, nextIdx running over the meshlets
RECURSIVE splitIndicesFrom(_, _, _)
splitIndicesFrom(ms, meshletTriangles, nextIdx) ==
  IF ms = <<>> THEN <<>>
  ELSE LET vertexCount == Head(ms).triangleCount * VERTS_IN_TRIANGLE
           firstIndex == nextIdx
       IN <<SubSeq(meshletTriangles, firstIndex + 1, firstIndex + vertexCount)>>
            \o splitIndicesFrom(Tail(ms), meshletTriangles, nextIdx + vertexCount)

splitIndicesPerMeshlets(meshlets) ==
  splitIndicesFrom(meshlets.meshlets, meshlets.meshletTriangles, 0)

\* createMeshletsMesh: the vertices pushed (as indices of the original buffer) and
\* the indices pushed, meshlet by meshlet
RECURSIVE meshletsMeshFrom(_, _, _)
meshletsMeshFrom(ms, meshlets, prevVertsCount) ==
  IF ms = <<>> THEN [meshletVertices |-> <<>>, meshletIndices |-> <<>>]
  ELSE LET meshlet == Head(ms)
           pushedVertices ==
             [v \in 1..meshlet.vertexCount |->
                At(meshlets.meshletVertices, meshlet.vertexOffset + (v - 1))]
           pushedIndices ==
             [t \in 1..(meshlet.triangleCount * VERTS_IN_TRIANGLE) |->
                LET idxInsideMeshlet ==
                      At(meshlets.meshletTriangles, meshlet.triangleOffset + (t - 1))
                IN IF idxInsideMeshlet = NaN THEN NaN
                   ELSE prevVertsCount + idxInsideMeshlet]
           rest == meshletsMeshFrom(Tail(ms), meshlets,
                                    prevVertsCount + meshlet.vertexCount)
       IN [ meshletVertices |-> pushedVertices \o rest.meshletVertices,
            meshletIndices |-> pushedIndices \o rest.meshletIndices ]

createMeshletsMesh(meshlets) == meshletsMeshFrom(meshlets.meshlets, meshlets, 0)

\* the clusterer has answered with 1..MaxClusters clusters
InitClustering ==
  /\ BuildIdle
  /\ occlusion = NoCall
  /\ parsed = NoCall
  /\ adjacent = NoCall
  /\ otherBuild = NoCall
  /\ metisFreeAllocationsCalls = 0
  /\ awaiting = {}
  /\ earlierPasses = <<>>
  /\ thrown = NoCall
  /\ \E n \in 1..MaxClusters : \E cs \in [1..n -> ClusterChoices] :
       clustering = [ at |-> "clustered", clusters |-> cs,
                      raw |-> RawMeshlets(cs, 0, 0) ]

\* createMeshlets(vertices, indices, {...}) with the option left at its default
callCreateMeshlets ==
  /\ clustering.at = "clustered"
  /\ clustering' = [ at |-> "created", clusters |-> clustering.clusters,
                     raw |-> clustering.raw,
                     meshlets |-> createMeshlets(clustering.raw, TRUE) ]
  /\ UNCHANGED <<buildVars, frameVars, appendVars, occlusion, parsed, adjacent, otherBuild,
               metisFreeAllocationsCalls, awaiting,
                 earlierPasses, thrown>>

\* splitIntoMeshlets: splitIndicesPerMeshlets(meshletsOpt)
callSplitIndicesPerMeshlets ==
  /\ clustering.at = "created"
  /\ clustering' = [ at |-> "split", clusters |-> clustering.clusters,
                     raw |-> clustering.raw, meshlets |-> clustering.meshlets,
                     meshletsIndices |-> splitIndicesPerMeshlets(clustering.meshlets) ]
  /\ UNCHANGED <<buildVars, frameVars, appendVars, occlusion, parsed, adjacent, otherBuild,
               metisFreeAllocationsCalls, awaiting,
                 earlierPasses, thrown>>

\* createMeshletsMesh reads the same createMeshlets result
callCreateMeshletsMesh ==
  /\ clustering.at = "created"
  /\ clustering' = [ at |-> "mesh", clusters |-> clustering.clusters,
                     raw |-> clustering.raw, meshlets |-> clustering.meshlets,
                     mesh |-> createMeshletsMesh(clustering.meshlets) ]
  /\ UNCHANGED <<buildVars, frameVars, appendVars, occlusion, parsed, adjacent, otherBuild,
               metisFreeAllocationsCalls, awaiting,
                 earlierPasses, thrown>>

NextClustering ==
  \/ callCreateMeshlets
  \/ callSplitIndicesPerMeshlets
  \/ callCreateMeshletsMesh

SpecClustering == InitClustering /\ [][NextClustering]_vars

\* ------------------------------------------------------ meshlet adjacency
\* an Edge is a pair of vertex indices, the smaller first
Edges == {e \in (0..MaxEdgeVertexIdx) \X (0..MaxEdgeVertexIdx) : e[1] < e[2]}

\* pairwise comparison: for every two meshlets count the equal boundary edges
findAdjacentMeshlets_Iter(boundaryEdges) ==
  [i \in DOMAIN boundaryEdges |-> [j \in DOMAIN boundaryEdges |->
     IF i = j THEN 0
     ELSE Cardinality({p \in boundaryEdges[i] \X boundaryEdges[j] : p[1] = p[2]})]]

findAdjacentMeshlets_Map_twoOwners(boundaryEdges) ==
  LET owners(e) == {i \in DOMAIN boundaryEdges : e \in boundaryEdges[i]}
      kept(e) == {i \in owners(e) : Cardinality({k \in owners(e) : k < i}) < 2}
  IN [i \in DOMAIN boundaryEdges |-> [j \in DOMAIN boundaryEdges |->
        IF i = j THEN 0
        ELSE Cardinality({e \in Edges : i \in kept(e) /\ j \in kept(e)})]]

\* hashed lookup: edge -> the meshlets that own it; every edge links its owners
findAdjacentMeshlets_Map(boundaryEdges) ==
  LET owners(e) == {i \in DOMAIN boundaryEdges : e \in boundaryEdges[i]}
  IN [i \in DOMAIN boundaryEdges |-> [j \in DOMAIN boundaryEdges |->
        IF i = j THEN 0
        ELSE Cardinality({e \in Edges : i \in owners(e) /\ j \in owners(e)})]]

\* const findAdjacentMeshlets = useMapToFindAdjacentEdges ? ..._Map : ..._Iter
findAdjacentMeshlets(useMapToFindAdjacentEdges, boundaryEdges) ==
  IF useMapToFindAdjacentEdges THEN findAdjacentMeshlets_Map(boundaryEdges)
  ELSE findAdjacentMeshlets_Iter(boundaryEdges)

\* currentMeshlets.map((m) => m.boundaryEdges) of some level
InitAdjacency ==
  /\ BuildIdle
  /\ occlusion = NoCall
  /\ parsed = NoCall
  /\ clustering = NoCall
  /\ otherBuild = NoCall
  /\ metisFreeAllocationsCalls = 0
  /\ awaiting = {}
  /\ earlierPasses = <<>>
  /\ thrown = NoCall
  /\ \E n \in 1..MaxMeshlets : \E be \in [1..n -> SUBSET Edges] :
       adjacent = [at |-> "edges", boundaryEdges |-> be, results |-> <<>>]

\* findAdjacentMeshlets(...) under one setting of the configuration
callFindAdjacentMeshlets(useMapToFindAdjacentEdges) ==
  /\ adjacent.at = "edges"
  /\ useMapToFindAdjacentEdges \notin DOMAIN adjacent.results
  /\ adjacent' = [adjacent EXCEPT !.results =
                    [u \in DOMAIN adjacent.results \cup {useMapToFindAdjacentEdges} |->
                       IF u = useMapToFindAdjacentEdges
                         THEN findAdjacentMeshlets(u, adjacent.boundaryEdges)
                         ELSE adjacent.results[u]]]
  /\ UNCHANGED <<buildVars, frameVars, appendVars, occlusion, parsed, clustering, otherBuild,
               metisFreeAllocationsCalls, awaiting,
                 earlierPasses, thrown>>

NextAdjacency ==
  \/ callFindAdjacentMeshlets(TRUE)
  \/ callFindAdjacentMeshlets(FALSE)

SpecAdjacency == InitAdjacency /\ [][NextAdjacency]_vars

\* ------------------------------------------------ occlusion culling (shader)
Abs(x) == IF x < 0 THEN -x ELSE x

\* useOcclusionCulling(): the flag the uniforms carry
useOcclusionCulling(cfg) == cfg.useOcclusionCulling /\ cfg.hasValidDepthPyramid

skipsOcclusionTest_never(flagOn) == FALSE

\* if (!useOcclusionCulling()) { return true; }
skipsOcclusionTest(flagOn) == ~flagOn

straddlesNearPlane_never(centerZ, r) == FALSE

\* abs(center.z) < r + CAMERA_CFG.near
straddlesNearPlane(centerZ, r) == Abs(centerZ) < r + CAMERA_CFG_near

\* depthMeshlet <= depthFromDepthBuffer, with
\* depthMeshlet = (projMat[2][2] * d + projMat[3][2]) / -d, projMat[2][2] = -1.0001,
\* projMat[3][2] = -0.010001; with d in units of 0.01 and depth in units of 0.0001
\* depthMeshlet is 10001 * (d + 1) / d
isDepthPassing(d, depthFromDepthBuffer) ==
  IF d < 0 THEN 10001 * (d + 1) >= depthFromDepthBuffer * d
  ELSE IF d > 0 THEN 10001 * (d + 1) <= depthFromDepthBuffer * d
  ELSE FALSE

\* isPassingOcclusionCulling: what it returns and whether it sampled the pyramid
isPassingOcclusionCulling(flagOn, centerZ, r, depthFromDepthBuffer) ==
  IF skipsOcclusionTest(flagOn) THEN [result |-> TRUE, sampled |-> FALSE]
  ELSE IF straddlesNearPlane(centerZ, r) THEN [result |-> TRUE, sampled |-> FALSE]
  ELSE [result |-> isDepthPassing(centerZ - r, depthFromDepthBuffer), sampled |-> TRUE]

\* i32 arithmetic wraps; the word is scaled down like U32_MODULUS
I32_MIN == 0 - U32_MODULUS \div 2
I32_MAX == U32_MODULUS \div 2 - 1
WrapI32(x) == ((x - I32_MIN) % U32_MODULUS) + I32_MIN

RECURSIVE Pow2(_)
Pow2(e) == IF e <= 0 THEN 1 ELSE 2 * Pow2(e - 1)

\* span / PixelUnit <= 2^e
AtMostPow2(span, e) ==
  IF e >= 0 THEN span <= PixelUnit * Pow2(e) ELSE span * Pow2(-e) <= PixelUnit

RECURSIVE ceilLog2From(_, _)
ceilLog2From(span, e) ==
  IF AtMostPow2(span, e)
    THEN IF AtMostPow2(span, e - 1) THEN ceilLog2From(span, e - 1) ELSE e
    ELSE ceilLog2From(span, e + 1)

\* i32(ceil(log2(pixelSpan))): log2 of 0 is outside the domain of log2 and the
\* conversion of its result is an indeterminate i32
ceilLog2(span) ==
  IF span > 0 THEN {ceilLog2From(span, 0)} ELSE {I32_MIN, 0 - 1, 0, I32_MAX}

clampToMipLevels_noClamp(level, levelCount) == level

\* clampToMipLevels(level, texture): clamped to the levels the pyramid has
clampToMipLevels(level, levelCount) ==
  IF level < 0 THEN 0 ELSE IF level > levelCount - 1 THEN levelCount - 1 ELSE level

\* the mip levels the occlusion test may sample for a footprint of pixelSpan
mipLevelOf(pixelSpan, levelCount) ==
  {clampToMipLevels(WrapI32(mipLevel + 1), levelCount) : mipLevel \in ceilLog2(pixelSpan)}

\* a unit reaches the occlusion test with some configuration, sphere and pyramid
InitOcclusion ==
  /\ BuildIdle
  /\ parsed = NoCall
  /\ clustering = NoCall
  /\ adjacent = NoCall
  /\ otherBuild = NoCall
  /\ metisFreeAllocationsCalls = 0
  /\ awaiting = {}
  /\ earlierPasses = <<>>
  /\ thrown = NoCall
  /\ occlusion \in [ at : {"call"},
                     cfg : [useOcclusionCulling : BOOLEAN, hasValidDepthPyramid : BOOLEAN],
                     centerZ : (-MaxViewZ)..MaxViewZ,
                     r : 0..MaxRadius,
                     depthPyramid : DepthSamples,
                     pixelSpan : 0..MaxPixelSpan,
                     levelCount : 1..MaxLevels,
                     mipLevel : {NaN},
                     result : {FALSE},
                     sampled : {FALSE} ]

callIsPassingOcclusionCulling ==
  /\ occlusion.at = "call"
  /\ LET out == isPassingOcclusionCulling(useOcclusionCulling(occlusion.cfg),
                                          occlusion.centerZ, occlusion.r,
                                          occlusion.depthPyramid)
     IN \E mipLevel \in IF out.sampled
                           THEN mipLevelOf(occlusion.pixelSpan, occlusion.levelCount)
                           ELSE {NaN} :
          occlusion' = [occlusion EXCEPT !.at = "done", !.result = out.result,
                                         !.sampled = out.sampled, !.mipLevel = mipLevel]
  /\ UNCHANGED <<buildVars, frameVars, appendVars, parsed, clustering, adjacent, otherBuild,
               metisFreeAllocationsCalls, awaiting,
                 earlierPasses, thrown>>

NextOcclusion == callIsPassingOcclusionCulling

SpecOcclusion == InitOcclusion /\ [][NextOcclusion]_vars

Next ==
  \/ Start
  \/ createMeshletWip
  \/ resumeCreateMeshletWip
  \/ BottomDone
  \/ LoopExit
  \/ Partition
  \/ StallGroup
  \/ SimplifyGroup
  \/ AssignParents
  \/ Throw
  \/ NextLevel
  \/ Return
  \/ createDrawnMeshletsBuffer
  \/ cmdCalculateVisibility

Spec == Init /\ [][Next]_vars

\* the build alone; every call the build awaits returns
NextBuild ==
  \/ Start
  \/ createMeshletWip
  \/ resumeCreateMeshletWip
  \/ BottomDone
  \/ LoopExit
  \/ Partition
  \/ StallGroup
  \/ SimplifyGroup
  \/ AssignParents
  \/ Throw
  \/ NextLevel
  \/ Return

SpecBuild == Init /\ [][NextBuild]_vars /\ WF_vars(NextBuild)

\* ------------------------------------------------------------------ claims
Nodes == DOMAIN allMeshlets
RootsOf(ms) == {p \in DOMAIN ms : ms[p].parentError = Infinity}
ParentsOf(ms, p) == {q \in DOMAIN ms : p \in ms[q].createdFrom}
StalledMembers == UNION {g.members : g \in stalledGroups}

RECURSIVE SumOver(_, _)
SumOver(ms, S) ==
  IF S = {} THEN 0
  ELSE LET p == CHOOSE x \in S : TRUE
       IN ms[p].triangles + SumOver(ms, S \ {p})

\* C1: every node that has a parent has parentError >= its own error, and a node's
\* own error is never below the own error of a node it was created from.
C1_ErrorMonotone ==
  /\ \A p \in Nodes :
       allMeshlets[p].parentBounds # Undefined
         => allMeshlets[p].parentError >= allMeshlets[p].maxSiblingsError
  /\ \A q \in Nodes : \A p \in allMeshlets[q].createdFrom :
       allMeshlets[p].maxSiblingsError <= allMeshlets[q].maxSiblingsError

C1_Witness ==
  \E p \in Nodes :
    /\ allMeshlets[p].parentBounds # Undefined
    /\ allMeshlets[p].maxSiblingsError > 0
    /\ allMeshlets[p].parentError > allMeshlets[p].maxSiblingsError

\* C2: in every state of the build parentBounds is undefined exactly when parentError
\* is +Infinity; in the returned DAG parentError is +Infinity exactly for the nodes
\* that no node lists in createdFrom.
C2_RootMarks ==
  /\ \A p \in Nodes :
       (allMeshlets[p].parentBounds = Undefined) <=> (allMeshlets[p].parentError = Infinity)
  /\ pc = "returned" =>
       \A p \in DOMAIN result :
         (result[p].parentError = Infinity) <=> (ParentsOf(result, p) = {})

C2_Witness ==
  /\ pc = "returned"
  /\ \E p \in DOMAIN result : ParentsOf(result, p) # {}
  /\ \E p \in DOMAIN result : ParentsOf(result, p) = {} /\ p \in StalledMembers

\* C3 as claimed: the returned DAG has exactly one root.
C3_ExactlyOneRoot ==
  pc = "returned" => Cardinality(RootsOf(result)) = 1

\* C3 as amended: the roots of the returned DAG are the nodes of the last level
\* created and the members of the stalled groups, there is at least one, and there
\* is exactly one when no group stalled and the loop ended below 2 current nodes.
C3_Roots ==
  pc = "returned" =>
    /\ RootsOf(result) = Range(currentMeshlets) \cup StalledMembers
    /\ RootsOf(result) # {}
    /\ (stalledGroups = {} /\ Len(currentMeshlets) < 2)
         => Cardinality(RootsOf(result)) = 1

C3_Witness ==
  /\ pc = "returned"
  /\ stalledGroups = {}
  /\ Len(currentMeshlets) < 2
  /\ \E p \in DOMAIN result : result[p].lodLevel = 2

\* the nodes instance i draws
DrawnOf(i) == {u[2] : u \in {v \in drawn : v[1] = i}}

\* how many drawn nodes a path from p up to a root can meet
RECURSIVE DrawnOnPaths(_, _, _)
DrawnOnPaths(ms, sel, p) ==
  LET own == IF p \in sel THEN 1 ELSE 0
  IN IF ParentsOf(ms, p) = {} THEN {own}
     ELSE {own + c : c \in UNION {DrawnOnPaths(ms, sel, q) : q \in ParentsOf(ms, p)}}

\* C4 as claimed: for every instance, every path from a leaf up to a root meets
\* exactly one drawn node.
C4_Cut ==
  pc = "frame" =>
    \A i \in 1..instanceCount : \A p \in DOMAIN result :
      result[p].createdFrom = {} => DrawnOnPaths(result, DrawnOf(i), p) = {1}

\* C5: a unit is drawn exactly when its projected parent error is above the threshold
\* and its projected own error is not; for a level-0 node this is decided by the
\* parent's error alone, for a root by its own error alone.
C5_CutRule ==
  pc = "frame" =>
    \A i \in 1..instanceCount : \A p \in DOMAIN result :
      LET m == result[p]
          parentAbove == \/ m.parentError = Infinity
                         \/ m.parentError \div cameraDistance[i][m.parentBounds]
                              > pixelThreshold
          ownBelow == m.maxSiblingsError \div cameraDistance[i][m.sharedSiblingsBounds]
                        <= pixelThreshold
      IN /\ (<<i, p>> \in drawn) <=> (parentAbove /\ ownBelow)
         /\ m.lodLevel = 0 => ((<<i, p>> \in drawn) <=> parentAbove)
         /\ m.parentError = Infinity => ((<<i, p>> \in drawn) <=> ownBelow)

C5_Witness ==
  /\ pc = "frame"
  /\ \E p \in DOMAIN result :
       result[p].lodLevel = 0 /\ result[p].parentError # Infinity /\ <<1, p>> \in drawn
  /\ \E p \in DOMAIN result : result[p].lodLevel = 0 /\ <<1, p>> \notin drawn
  /\ \E p \in DOMAIN result :
       result[p].lodLevel > 0 /\ result[p].parentError = Infinity /\ <<1, p>> \in drawn

\* C6 as claimed: a frame never accepts more units than the list has slots.
C6_Capacity ==
  pc = "frame" => Cardinality(drawn) <= drawnMeshletsListLen

ProducersOf(kind) == {p \in DOMAIN producers : producers[p].kind = kind}
HasSlot(p) == producers[p].at # "accepted"
AllDone == \A p \in DOMAIN producers : producers[p].at = "done"
FilledSlots == {i \in DOMAIN drawnMeshletsList : drawnMeshletsList[i] # NoEntry}
Min(a, b) == IF a <= b THEN a ELSE b

\* C7: every producer takes its slot from one increment of its list's counter, no
\* two producers of a list hold the same slot, nothing is written outside indices
\* 0..C-1, a unit that fits is in the list once its producer has finished, and when
\* all producers have finished exactly min(acceptedCount, C) slots are filled.
C7_Append ==
  /\ drawnMeshletsParams.instanceCount
       = Cardinality({p \in ProducersOf("hardware") : HasSlot(p)})
  /\ drawnMeshletsSwParams.actuallyDrawnMeshlets
       = Cardinality({p \in ProducersOf("software") : HasSlot(p)})
  /\ \A p, q \in DOMAIN producers :
       (p # q /\ HasSlot(p) /\ HasSlot(q) /\ producers[p].kind = producers[q].kind)
         => producers[p].slot # producers[q].slot
  /\ DOMAIN drawnMeshletsList = 0..(drawnMeshletsListLen - 1)
  /\ \A p \in DOMAIN producers :
       (producers[p].at = "done" /\ Len(producers) <= drawnMeshletsListLen)
         => \E i \in DOMAIN drawnMeshletsList : drawnMeshletsList[i] = UnitOf(p)
  /\ AllDone => Cardinality(FilledSlots) = Min(Len(producers), drawnMeshletsListLen)

C7_Witness ==
  /\ AllDone
  /\ Len(producers) > drawnMeshletsListLen
  /\ ProducersOf("software") = DOMAIN producers
  /\ Cardinality(FilledSlots) = drawnMeshletsListLen

\* C8 as claimed: the hardware and the software region never overlap, and when the
\* pass is over every accepted unit stands in the list exactly once.
C8_Disjoint ==
  /\ drawnMeshletsParams.instanceCount + drawnMeshletsSwParams.actuallyDrawnMeshlets
       <= drawnMeshletsListLen
  /\ AllDone =>
       \A p \in DOMAIN producers :
         Cardinality({i \in DOMAIN drawnMeshletsList : drawnMeshletsList[i] = UnitOf(p)}) = 1

\* C9: SimplificationError is thrown exactly when level 1 ends with no new node, that
\* is when every group of level 1 stalled; nothing is returned then; a later level
\* that creates nothing does not throw.
C9_SimplificationError ==
  /\ pc = "threw" =>
       /\ lodLevel = 1
       /\ \A p \in Nodes : allMeshlets[p].lodLevel = 0
       /\ {g.members : g \in stalledGroups} = {Range(partitioned[i]) : i \in DOMAIN partitioned}
       /\ result = NoResult
  /\ (pc # "threw" /\ lodLevel >= 2) => \E p \in Nodes : allMeshlets[p].lodLevel = 1
  /\ pc \in {"returned", "scene", "frame"} => result = allMeshlets

C9_Witness ==
  /\ pc = "threw"
  /\ Len(partitioned) = 2

\* a later level at which every group stalls ends the build with a result
C9_WitnessLaterLevel ==
  /\ pc = "returned"
  /\ \E g \in stalledGroups : g.lodLevel = 2
  /\ \A p \in DOMAIN result : result[p].lodLevel < 2

\* the nodes created from the group whose merged bounds are b, and the group
CreatedWithBounds(b) == {q \in Nodes : allMeshlets[q].sharedSiblingsBounds = b}
GroupOfBounds(b) == UNION {allMeshlets[q].createdFrom : q \in CreatedWithBounds(b)}

\* C10: a group is stalled exactly when trianglesAfter / trianglesBefore > 0.97; no
\* node is created from a stalled group and its members stay without parent; the
\* other groups of the level are processed and the build does not throw when one
\* of them succeeded.
C10_Stall ==
  /\ \A g \in stalledGroups :
       /\ 100 * g.trianglesAfter > 97 * g.trianglesBefore
       /\ \A p \in g.members :
            /\ allMeshlets[p].parentError = Infinity
            /\ allMeshlets[p].parentBounds = Undefined
            /\ ParentsOf(allMeshlets, p) = {}
  /\ \A b \in 2..(nextBounds - 1) :
       (pc # "split" \/ b < nextBounds - 1) =>
         100 * SumOver(allMeshlets, CreatedWithBounds(b))
           <= 97 * SumOver(allMeshlets, GroupOfBounds(b))
  /\ \A p \in Nodes :
       (allMeshlets[p].lodLevel < lodLevel - 1 /\ pc \in {"loop", "group", "split"})
         => (allMeshlets[p].parentBounds # Undefined \/ p \in StalledMembers)
  /\ (pc = "threw") => newlyCreatedMeshlets = <<>>

C10_Witness ==
  /\ pc = "returned"
  /\ \E g \in stalledGroups :
       /\ g.lodLevel = 1
       /\ \E b \in 2..(nextBounds - 1) :
            /\ CreatedWithBounds(b) # {}
            /\ \A q \in CreatedWithBounds(b) : allMeshlets[q].lodLevel = 1
            /\ 100 * SumOver(allMeshlets, CreatedWithBounds(b))
                 = 97 * SumOver(allMeshlets, GroupOfBounds(b))

\* the model stops creating nodes at MaxNodes
NodeBudgetSpent == Len(allMeshlets) = MaxNodes /\ pending # <<>>

\* C11: the build ends, by returning or by throwing; a level is only worked on while
\* lodLevel <= MAX_LODS and at least 2 current nodes are left, and no node of a level
\* above MAX_LODS exists.
C11_Terminates ==
  /\ [](pc \in {"group", "split"} => (lodLevel <= MAX_LODS /\ Len(currentMeshlets) >= 2))
  /\ [](\A p \in Nodes : allMeshlets[p].lodLevel <= MAX_LODS)
  /\ <>(pc \in {"returned", "threw"} \/ NodeBudgetSpent)

\* the level cap ends the loop with 2 or more current nodes left
C11_Witness ==
  /\ pc = "returned"
  /\ lodLevel = MAX_LODS + 1
  /\ Len(currentMeshlets) >= 2

\* C12: a sphere with |viewSpaceZ| < radius + near is reported visible without a
\* read of the depth pyramid, whatever the pyramid holds and whatever the flags are.
C12_NearPlane ==
  (occlusion.at = "done" /\ Abs(occlusion.centerZ) < occlusion.r + CAMERA_CFG_near)
    => (occlusion.result /\ ~occlusion.sampled)

C12_Witness ==
  /\ occlusion.at = "done"
  /\ occlusion.cfg.useOcclusionCulling /\ occlusion.cfg.hasValidDepthPyramid
  /\ occlusion.centerZ < 0
  /\ Abs(occlusion.centerZ) < occlusion.r + CAMERA_CFG_near
  /\ occlusion.depthPyramid = 0
  /\ occlusion.result

\* C13: with occlusion culling switched off, or with no valid depth pyramid yet, every
\* node is reported visible without a read of the pyramid.
C13_AlwaysVisible ==
  (occlusion.at = "done"
     /\ (~occlusion.cfg.useOcclusionCulling \/ ~occlusion.cfg.hasValidDepthPyramid))
    => (occlusion.result /\ ~occlusion.sampled)

C13_Witness ==
  /\ occlusion.at = "done"
  /\ occlusion.cfg.useOcclusionCulling /\ ~occlusion.cfg.hasValidDepthPyramid
  /\ Abs(occlusion.centerZ) >= occlusion.r + CAMERA_CFG_near
  /\ occlusion.depthPyramid = 0
  /\ occlusion.result

AloneAtLevel(ms, p) == \A q \in DOMAIN ms : ms[q].lodLevel = ms[p].lodLevel => q = p

ClusterOriginalIndices(c) == [j \in DOMAIN c.local |-> c.vertices[c.local[j] + 1]]

RECURSIVE Concat(_)
Concat(ss) == IF ss = <<>> THEN <<>> ELSE Head(ss) \o Concat(Tail(ss))

\* the array createMeshlets returns holds, cluster after cluster, the cluster's
\* indices into the original vertex buffer
C16_Rewritten ==
  clustering.at \in {"created", "split", "mesh"} =>
    clustering.meshlets.meshletTriangles
      = Concat([i \in DOMAIN clustering.clusters |->
                  ClusterOriginalIndices(clustering.clusters[i])])

\* splitIndicesPerMeshlets returns for cluster i that cluster's rewritten indices
C16_Split ==
  clustering.at = "split" =>
    clustering.meshletsIndices
      = [i \in DOMAIN clustering.clusters |-> ClusterOriginalIndices(clustering.clusters[i])]

\* the triangles createMeshletsMesh hands to the GPU are the clusters' triangles
C16_MeshReader ==
  clustering.at = "mesh" =>
    [n \in DOMAIN clustering.mesh.meshletIndices |->
       At(clustering.mesh.meshletVertices, clustering.mesh.meshletIndices[n])]
      = Concat([i \in DOMAIN clustering.clusters |->
                  ClusterOriginalIndices(clustering.clusters[i])])

\* C16 as claimed: createMeshlets rewrites every index to the original vertex buffer,
\* splitIndicesPerMeshlets cuts the array into the clusters' slices, and every reader
\* of the createMeshlets result, createMeshletsMesh included, reads it under that layout.
C16_Layout == C16_Rewritten /\ C16_Split /\ C16_MeshReader

C18_Deterministic ==
  pc = "returned" => \A p \in DOMAIN result : result[p].id = p - 1

\* the build session is over: createNaniteMeshlets returned or threw
SessionEnded == pc \notin {"start", "bottom", "loop", "group", "split", "finish"}

\* C19 as claimed: no release while the session runs, and exactly one release once it
\* has ended, whether it returned or raised SimplificationError.
C19_ReleasedOnce ==
  /\ ~SessionEnded => metisFreeAllocationsCalls = 0
  /\ SessionEnded => metisFreeAllocationsCalls = 1

\* C19, the part the code keeps: never a release between levels, one on a normal return
C19_ReleasedOnReturn ==
  /\ ~SessionEnded => metisFreeAllocationsCalls = 0
  /\ (SessionEnded /\ pc # "threw") => metisFreeAllocationsCalls = 1

\* errors a simplifier answer adds to the members' largest own error
ErrorNowValues == {error * errorScale : error \in 0..MaxSimplifyError, errorScale \in ErrorScales}

\* C20: every node created from a group carries the simplifier's scaled error plus the
\* largest own error of the group's members, all nodes created from one group carry
\* the same own error and own bounds, and in the returned DAG every member of the
\* group holds exactly these as its parent error and parent bounds.
C20_Propagation ==
  /\ \A q \in Nodes :
       allMeshlets[q].createdFrom # {} =>
         /\ \E errorNow \in ErrorNowValues :
              allMeshlets[q].maxSiblingsError =
                errorNow + Max({allMeshlets[c].maxSiblingsError : c \in allMeshlets[q].createdFrom})
         /\ \A r \in Nodes :
              allMeshlets[r].createdFrom = allMeshlets[q].createdFrom =>
                /\ allMeshlets[r].maxSiblingsError = allMeshlets[q].maxSiblingsError
                /\ allMeshlets[r].sharedSiblingsBounds = allMeshlets[q].sharedSiblingsBounds
  /\ pc = "returned" =>
       \A q \in DOMAIN result : \A c \in result[q].createdFrom :
         /\ result[c].parentError = result[q].maxSiblingsError
         /\ result[c].parentBounds = result[q].sharedSiblingsBounds

\* a returned DAG with two siblings of non-zero own error and, above them, a node
\* whose own error adds to the largest own error of its members
C20_Witness ==
  /\ pc = "returned"
  /\ \E q, r \in DOMAIN result :
       /\ q # r
       /\ result[q].createdFrom # {}
       /\ result[r].createdFrom = result[q].createdFrom
       /\ result[q].maxSiblingsError > 0
  /\ \E q \in DOMAIN result : \E c \in result[q].createdFrom :
       /\ result[c].maxSiblingsError > 0
       /\ result[q].maxSiblingsError > result[c].maxSiblingsError

\* C21: a step of the build never changes a node's own error, own bounds, level,
\* child list or id, never touches the parent error and parent bounds of a node
\* that already has them, and never removes a node.
C21_WrittenOnce ==
  [][ /\ Len(allMeshlets') >= Len(allMeshlets)
      /\ \A p \in DOMAIN allMeshlets :
           /\ allMeshlets'[p].maxSiblingsError = allMeshlets[p].maxSiblingsError
           /\ allMeshlets'[p].sharedSiblingsBounds = allMeshlets[p].sharedSiblingsBounds
           /\ allMeshlets'[p].lodLevel = allMeshlets[p].lodLevel
           /\ allMeshlets'[p].createdFrom = allMeshlets[p].createdFrom
           /\ allMeshlets'[p].id = allMeshlets[p].id
           /\ allMeshlets[p].parentBounds # Undefined =>
                /\ allMeshlets'[p].parentError = allMeshlets[p].parentError
                /\ allMeshlets'[p].parentBounds = allMeshlets[p].parentBounds ]_vars

\* a returned DAG of three levels: the leaves got their parent data at level 1, and
\* a whole further level was built after that
C21_Witness ==
  /\ pc = "returned"
  /\ \E p, q, r \in DOMAIN result :
       /\ p \in result[q].createdFrom
       /\ q \in result[r].createdFrom
       /\ result[p].parentBounds # Undefined
       /\ result[q].parentBounds # Undefined
       /\ result[p].parentBounds # result[q].parentBounds

\* C22, the part the code keeps: a level of at most GROUP_SIZE nodes is one group, a
\* larger level is split into ceil(n / GROUP_SIZE) groups, and every current node is
\* in exactly one group.
C22_Partition ==
  pc \in {"group", "split"} =>
    /\ Len(partitioned) = IF Len(currentMeshlets) > GROUP_SIZE
                            THEN CeilDiv(Len(currentMeshlets), GROUP_SIZE)
                            ELSE 1
    /\ \A i \in DOMAIN currentMeshlets :
         \E g \in DOMAIN partitioned :
           /\ currentMeshlets[i] \in Range(partitioned[g])
           /\ \A h \in DOMAIN partitioned :
                currentMeshlets[i] \in Range(partitioned[h]) => h = g
    /\ \A g \in DOMAIN partitioned :
         /\ Range(partitioned[g]) \subseteq Range(currentMeshlets)
         /\ Cardinality(Range(partitioned[g])) = Len(partitioned[g])

\* C22 as claimed: the groups partition the level and none has more than GROUP_SIZE
\* members.
C22_Groups ==
  /\ C22_Partition
  /\ pc \in {"group", "split"} =>
       \A g \in DOMAIN partitioned : Len(partitioned[g]) <= GROUP_SIZE

\* C23: while the new nodes of a level's only group are made there is exactly one of
\* them, whatever its size; with two or more groups every new node comes from the
\* clusterer and respects its triangle bound; and once a level of one group has
\* produced its node, that node is the only current node, the loop does not run
\* again, and the node is a root created from the whole group.
C23_LastGroup ==
  /\ pc = "split" =>
       IF Len(partitioned) = 1
         THEN Len(newMeshlets) + Len(pending) = 1
         ELSE /\ \A i \in DOMAIN pending : pending[i] <= meshletMaxTriangles
              /\ \A i \in DOMAIN newMeshlets :
                   allMeshlets[newMeshlets[i]].triangles <= meshletMaxTriangles
  /\ ( /\ pc \in {"loop", "finish", "returned"}
       /\ lodLevel >= 2
       /\ Len(partitioned) = 1
       /\ newlyCreatedMeshlets # <<>> ) =>
       /\ Len(currentMeshlets) = 1
       /\ Len(currentMeshlets) < 2
       /\ allMeshlets[currentMeshlets[1]].parentBounds = Undefined
       /\ allMeshlets[currentMeshlets[1]].createdFrom = Range(partitioned[1])
       /\ pc = "returned" => result[currentMeshlets[1]].parentError = Infinity

\* a build returned whose last level was one group: its root holds more triangles
\* than the clusterer would ever put in one cluster, and a level below it was
\* built from several groups through the clusterer
C23_Witness ==
  /\ pc = "returned"
  /\ Len(partitioned) = 1
  /\ Len(currentMeshlets) = 1
  /\ result[currentMeshlets[1]].triangles > meshletMaxTriangles
  /\ result[currentMeshlets[1]].lodLevel = 2
  /\ \E p, q \in DOMAIN result :
       /\ p # q
       /\ result[p].lodLevel = 1
       /\ result[q].lodLevel = 1
       /\ result[p].createdFrom # result[q].createdFrom

\* C24: nodes of level 0 have no children, a node of level L >= 1 has children and
\* all of them are of level L - 1 and stand before it in the array, and the level
\* never decreases along the array.
C24_LevelOrdered ==
  /\ \A q \in Nodes :
       IF allMeshlets[q].lodLevel = 0
         THEN allMeshlets[q].createdFrom = {}
         ELSE /\ allMeshlets[q].createdFrom # {}
              /\ \A c \in allMeshlets[q].createdFrom :
                   /\ c \in Nodes
                   /\ c < q
                   /\ allMeshlets[c].lodLevel = allMeshlets[q].lodLevel - 1
  /\ \A p, q \in Nodes : p < q => allMeshlets[p].lodLevel <= allMeshlets[q].lodLevel
  /\ pc = "returned" => result = allMeshlets

\* a returned DAG with nodes on three levels
C24_Witness ==
  /\ pc = "returned"
  /\ \E p, q, r \in DOMAIN result :
       /\ result[p].lodLevel = 0
       /\ result[q].lodLevel = 1
       /\ result[r].lodLevel = 2
       /\ p \in result[q].createdFrom
       /\ q \in result[r].createdFrom
       /\ Cardinality(result[r].createdFrom) >= 2

\* C25: in a build that no other build overlaps, the node at array position i (from 0)
\* has id i, so no id is skipped or handed out twice, and the counter stands at the
\* number of nodes pushed, in whatever order the createMeshletWip calls started
\* together resume from the progress callback.
C25_Ids ==
  pc \in {"bottom", "loop", "group", "split", "finish", "returned"} =>
    /\ \A p \in Nodes : allMeshlets[p].id = p - 1
    /\ \A p, q \in Nodes : allMeshlets[p].id = allMeshlets[q].id => p = q
    /\ NEXT_MESHLET_ID = Len(allMeshlets)
    /\ awaiting \subseteq Nodes

\* three createMeshletWip calls of one re-clustered group were started together and
\* the second one has resumed before the first and the third
C25_Witness ==
  /\ pc = "split"
  /\ pending = <<>>
  /\ Len(newMeshlets) = 3
  /\ awaiting = {newMeshlets[1], newMeshlets[3]}

\* C26: in every pass, whatever the passes before it accepted, the instance count is
\* the number of hardware units of this pass that have taken their slot, so when
\* the pass has ended it is the number of hardware units of this pass alone.
C26_LatestPassOnly ==
  pc = "pass" =>
    drawnMeshletsParams.instanceCount =
      Cardinality({p \in HardwareProducers : producers[p].at # "accepted"})

\* the third pass has ended with fewer hardware units than each pass before it
C26_Witness ==
  /\ pc = "pass"
  /\ Len(earlierPasses) = 2
  /\ passComplete
  /\ Cardinality(HardwareProducers) = 1
  /\ earlierPasses[1] >= 2
  /\ earlierPasses[2] >= 2

\* C27, when the accepted units fit the list: the count in the hardware header is
\* the number of hardware units, they stand at list indices 0..count-1, and the
\* reader returns count entries, entry i being the pair at list index i.
C27_ReadbackThatFits ==
  (parsed.at = "done" /\ Len(producers) <= drawnMeshletsListLen) =>
    /\ parsed.meshletCount = Cardinality(ProducersOf("hardware"))
    /\ \A i \in 0..(parsed.meshletCount - 1) :
         /\ i \in DOMAIN drawnMeshletsList
         /\ \E p \in ProducersOf("hardware") : drawnMeshletsList[i] = UnitOf(p)
         /\ parsed.meshletIds[i] = drawnMeshletsList[i]
    /\ DOMAIN parsed.meshletIds = 0..(parsed.meshletCount - 1)

\* C27 as claimed, for every finished pass
C27_Readback ==
  parsed.at = "done" =>
    /\ parsed.meshletCount = Cardinality(ProducersOf("hardware"))
    /\ \A i \in 0..(parsed.meshletCount - 1) :
         /\ i \in DOMAIN drawnMeshletsList
         /\ \E p \in ProducersOf("hardware") : drawnMeshletsList[i] = UnitOf(p)
         /\ parsed.meshletIds[i] = drawnMeshletsList[i]
    /\ DOMAIN parsed.meshletIds = 0..(parsed.meshletCount - 1)

\* C28: whenever the occlusion test samples the pyramid, the level it samples is one
\* of the pyramid's levels; a level strictly inside the range is ceil(log2(span)) + 1,
\* that is 2^(level-2) < span <= 2^(level-1); the top level is sampled only for spans
\* above 2^(top-2) and level 0 only for spans of at most half a pixel, unless the
\* pyramid has a single level. A span of 0 has no logarithm: its level is only
\* known to be one of the pyramid's.
C28_MipLevel ==
  (occlusion.at = "done" /\ occlusion.sampled) =>
    LET level == occlusion.mipLevel
        top == occlusion.levelCount - 1
        span == occlusion.pixelSpan
    IN /\ level \in 0..top
       /\ (span > 0 /\ 0 < level /\ level < top) =>
            (AtMostPow2(span, level - 1) /\ ~AtMostPow2(span, level - 2))
       /\ (span > 0 /\ level = top /\ top > 0) => ~AtMostPow2(span, level - 2)
       /\ (span > 0 /\ level = 0 /\ top > 0) => AtMostPow2(span, 0 - 1)

\* a footprint of 2.25 pixels was sampled at level 3 of a pyramid of 4 levels
C28_Witness ==
  /\ occlusion.at = "done"
  /\ occlusion.sampled
  /\ occlusion.levelCount = 4
  /\ occlusion.pixelSpan = 2 * PixelUnit + 1
  /\ occlusion.mipLevel = 3

\* a footprint of no extent was sampled, and one far larger than the top level covers
C28_WitnessClamped ==
  /\ occlusion.at = "done"
  /\ occlusion.sampled
  /\ occlusion.levelCount = 2
  /\ occlusion.pixelSpan = 0 \/ occlusion.pixelSpan = MaxPixelSpan

\* the triangles of the mesh that is built: those of its bottom nodes
MeshTriangles == SumOver(allMeshlets, {p \in Nodes : allMeshlets[p].lodLevel = 0})

\* C29, the part the code keeps: the error names itself, the vertex count of the
\* mesh and a level
C29_ReportsVertexCountAndLevel ==
  pc = "threw" =>
    /\ thrown.name = "SimplificationError"
    /\ thrown.vertexCount \in 3..MaxVertexCount
    /\ thrown.lodLevel = lodLevel - 1

\* C29 as claimed: the error raised when level 1 cannot be simplified reports the
\* triangle count of the mesh, its vertex count and the level at which it failed.
C29_ErrorReport ==
  pc = "threw" =>
    /\ thrown.name = "SimplificationError"
    /\ "vertexCount" \in DOMAIN thrown
    /\ "lodLevel" \in DOMAIN thrown
    /\ "triangleCount" \in DOMAIN thrown
    /\ thrown.triangleCount = MeshTriangles

\* C30 as claimed: when a second build ran while the first was suspended, each of the
\* two returned DAGs has unique ids and its i-th node (from 0) has id i.
C30_OverlapKeepsIds ==
  (pc = "returned" /\ otherBuild.at = "returned") =>
    /\ \A p \in DOMAIN result : result[p].id = p - 1
    /\ \A p, q \in DOMAIN result : result[p].id = result[q].id => p = q
    /\ \A i \in DOMAIN otherBuild.ids : otherBuild.ids[i] = i - 1
    /\ \A i, j \in DOMAIN otherBuild.ids : otherBuild.ids[i] = otherBuild.ids[j] => i = j

\* C30, what does hold: the build that ran to its end without being suspended has
\* its own ids in order, and the first build's ids are in order up to the node
\* after which the second build ran
C30_SecondBuildIds ==
  otherBuild.at = "returned" =>
    /\ \A i \in DOMAIN otherBuild.ids : otherBuild.ids[i] = i - 1
    /\ \E p \in Nodes : \A q \in 1..p : allMeshlets[q].id = q - 1

TypeOK ==
  /\ pc \in {"start", "bottom", "loop", "group", "split", "finish", "threw", "returned",
            "scene", "frame"}
  /\ Len(allMeshlets) <= MaxNodes
====
